---- MODULE Spec2Model ----
(***************************************************************************)
(* Model of the reviewed-preprints top-up cache                            *)
(* (src/src/queries/reviewed-preprints.ts, src/src/cli/...).               *)
(*                                                                         *)
(* A record of the collection is modelled by the fields the algorithm      *)
(* reads: id, statusDate and hash.  title and published are carried        *)
(* through every stage untouched and are left out.                         *)
(*                                                                         *)
(* A timestamp has two representations.  On the wire and on disk it is a   *)
(* string; in memory it is a Date.  A string is modelled by a number s     *)
(* that denotes the instant s \div 2, so that two different strings (2t    *)
(* and 2t+1) denote the same instant t, and Date.toJSON writes the one     *)
(* canonical string 2t.  Every date string the remote serves denotes an     *)
(* instant: the API's statusDate and published are dates.                  *)
(***************************************************************************)
EXTENDS Integers, Sequences, FiniteSets, TLC

VARIABLES
  pc,          \* position of the run in the pipeline (or of the call under test)
  limit,       \* the --limit option of the run
  offset,      \* the offset argument of a direct getReviewedPreprintsTopUp call
  remote,      \* the remote collection: raw items in order=asc order
  call,        \* what a direct getReviewedPreprintsTopUp call planned and returned
  listFile,    \* .cached/reviewed-preprints.json
  newFile,     \* .cached/reviewed-preprints-new.json
  details,     \* .cached/reviewed-preprints/<id>.json, per id
  dirExists,   \* whether .cached/reviewed-preprints/ exists
  error,       \* the failure the run surfaced, "none" while it has not failed
  invalidated, \* the ids whose detail file the Invalidator of this run removed
  runs,        \* number of runs started
  fresh,       \* the first run started with no canonical file and no cache directory
  leftover,    \* ids of the delta file the previous run left when it aborted after writing it
  deleted,     \* the ids whose existing detail file the Invalidator of this run deleted
  unreadable   \* the ids whose existence test failed in the Detail Backfill of this run

vars == <<pc, limit, offset, remote, call, listFile, newFile, details,
          dirExists, error, invalidated, runs, fresh, leftover, deleted, unreadable>>

----
\* Bounds of the model.

\* largest id of the pipeline's remote collection and cache
MaxId == 3
\* the later of the two instants a statusDate takes (the earlier is 1)
MaxDate == 2
\* largest --limit of a pipeline run
MaxLimit == 2
\* pipeline runs per behaviour
MaxRuns == 2
\* longest canonical / delta collection drawn for the Merger on its own
MaxLen == 2
\* largest offset of a direct getReviewedPreprintsTopUp call
MaxOffset == 26
\* largest small limit of a direct call (the limits 20, 100, 101 are added)
MaxSmallLimit == 6
\* largest small remote collection of a direct call
MaxSmallRemote == 12

\* Program constant: the per-page cap of reviewedPreprintsTopUpPath.
MaxPerPage == 100

----
\* Generic helpers: the JavaScript / effect library functions the code calls.

Min(a, b) == IF a < b THEN a ELSE b

Max(a, b) == IF a > b THEN a ELSE b

Range(s) == {s[i] : i \in 1..Len(s)}

\* Array.prototype.slice(start, end) for 0 <= start <= end: 0-based, end exclusive,
\* clipped to the array.
slice(s, start, end) == SubSeq(s, start + 1, Min(end, Len(s)))

\* Array.prototype.flat() of an array of arrays.
RECURSIVE flat(_)
flat(ss) == IF ss = <<>> THEN <<>> ELSE Head(ss) \o flat(Tail(ss))

\* Schema.DateFromString decode: the instant a date string denotes.
DateFromString(s) == s \div 2

\* Date.prototype.toJSON, as JSON.stringify applies it: the canonical ISO string.
toISOString(t) == 2 * t

\* createHash('md5').update(JSON.stringify(item)).digest('hex') of a decoded page
\* item: a fingerprint of the item's stringified fields (injective here).
md5Of(item) == <<item.id, toISOString(item.statusDate)>>

\* The absent optional hash field.
NoHash == <<>>

----
\* Page planning and fetching: getReviewedPreprintsTopUp.

\* per-page=${Math.min(limit, 100)} of reviewedPreprintsTopUpPath
perPage(lim) == Min(lim, MaxPerPage)

\* The remote API: page `page` (1-indexed) of the collection, `size` items a page.
remotePage(rem, page, size) ==
  SubSeq(rem, (page - 1) * size + 1, Min(page * size, Len(rem)))

\* Schema.decodeUnknown(reviewedPreprintItemCodec) of a raw item of a page;
\* the raw items of the API carry no hash.
decodeItem(raw) ==
  [id |-> raw.id, statusDate |-> DateFromString(raw.statusDate), hash |-> NoHash]

\* getReviewedPreprintsTopUpPage when the fetch and the decode succeed:
\* the page's items, decoded, each with its md5 hash.
getReviewedPreprintsTopUpPage(rem, lim, page) ==
  LET items == remotePage(rem, page, perPage(lim))
  IN  [i \in 1..Len(items) |->
         [decodeItem(items[i]) EXCEPT !.hash = md5Of(decodeItem(items[i]))]]

\* Mutant of firstPage: the first page whatever the offset.
firstPageIgnoringOffset(lim, off) == 1

\* Mutant of firstPage: the page of the offset rounded up instead of down.
firstPageRoundedUp(lim, off) == IF off > 0 THEN (off + lim - 1) \div lim ELSE 1

\* offset > 0 ? Math.floor((offset + limit) / limit) : 1
firstPage(lim, off) == IF off > 0 THEN (off + lim) \div lim ELSE 1

\* [page, ...((page > 0 && offset % limit > 0) ? [page + 1] : [])]
plannedPages(lim, off) ==
  LET page == firstPage(lim, off)
  IN  <<page>> \o (IF page > 0 /\ off % lim > 0 THEN <<page + 1>> ELSE <<>>)

sliceStart(lim, off) == off % lim

\* Mutant of sliceEnd: an end one short of the window.
sliceEndOneShort(lim, off) == (off % lim) + lim - 1

sliceEnd(lim, off) == (off % lim) + lim

\* getReviewedPreprintsTopUp when every page fetch succeeds.
getReviewedPreprintsTopUp(rem, lim, off) ==
  LET pages == [i \in 1..Len(plannedPages(lim, off)) |->
                  getReviewedPreprintsTopUpPage(rem, lim, plannedPages(lim, off)[i])]
  IN  slice(flat(pages), sliceStart(lim, off), sliceEnd(lim, off))

----
\* Files.

Absent == [kind |-> "absent", items |-> <<>>]

\* a file whose text is not JSON
BadJson == [kind |-> "badjson", items |-> <<>>]

\* a file whose text is JSON but not an array of Summary Records
NotList == [kind |-> "notlist", items |-> <<>>]

\* JSON.stringify of one decoded record: the Date fields become ISO strings.
encodeItem(r) == [id |-> r.id, statusDate |-> toISOString(r.statusDate), hash |-> r.hash]

\* Schema.decodeUnknown(reviewedPreprintItemCodec) of one stored record.
decodeStored(e) == [id |-> e.id, statusDate |-> DateFromString(e.statusDate), hash |-> e.hash]

\* stringifyJson(reviewedPreprints) written by fs.writeFileString
stringifyJson(rs) == [kind |-> "list", items |-> [i \in 1..Len(rs) |-> encodeItem(rs[i])]]

NoDetail == [present |-> FALSE, statusDate |-> 0]

Ids == 1..MaxId

Dates == {1, MaxDate}

\* no direct call made
NoCall == [pages |-> <<>>, sliceStart |-> 0, sliceEnd |-> 0, result |-> <<>>]

----
\* Reading a cached list: getCachedReviewedPreprints.

\* readFileString fails on an absent file and JSON.parse throws on text that is not
\* JSON: Effect.catchAll turns both into [].  The schema decode runs after the
\* catchAll, so its failure is the failure of the whole effect.
getCachedReviewedPreprints(file) ==
  IF file.kind \in {"absent", "badjson"} THEN [ok |-> TRUE, value |-> <<>>]
  ELSE IF file.kind = "notlist" THEN [ok |-> FALSE, value |-> <<>>]
  ELSE [ok |-> TRUE, value |-> [i \in 1..Len(file.items) |-> decodeStored(file.items[i])]]

----
\* The Merger: reviewedPreprintsTopUpCombine.

\* Mutant of appendAll: the new list alone.
appendOnlyNew(oldList, newList) == newList

\* Array.appendAll(oldList)(newList)
appendAll(oldList, newList) == oldList \o newList

\* Array.dedupeWith((a, b) => a.id === b.id): an element is pushed to the output
\* unless an element already in the output is equivalent to it.
RECURSIVE dedupeInto(_, _)
dedupeInto(out, rest) ==
  IF rest = <<>> THEN out
  ELSE IF \A i \in 1..Len(out) : out[i].id # Head(rest).id
       THEN dedupeInto(Append(out, Head(rest)), Tail(rest))
       ELSE dedupeInto(out, Tail(rest))

\* Mutant of dedupeWith: the last occurrence of an id is the one kept.
RECURSIVE dedupeKeepingLast(_)
dedupeKeepingLast(s) ==
  IF s = <<>> THEN <<>>
  ELSE IF \E i \in 2..Len(s) : s[i].id = Head(s).id
       THEN dedupeKeepingLast(Tail(s))
       ELSE <<Head(s)>> \o dedupeKeepingLast(Tail(s))

\* Mutant of dedupeWith: no deduplication.
dedupeNothing(s) == s

dedupeWith(s) == dedupeInto(<<>>, s)

\* Mutant of statusDateOrder: the order without Order.reverse.
statusDateAscending(a, b) ==
  IF a.statusDate = b.statusDate THEN 0 ELSE IF a.statusDate < b.statusDate THEN -1 ELSE 1

\* Order.reverse(Order.mapInput(Order.number, item => item.statusDate.getTime())):
\* a is ordered before b when its statusDate is the later one.
statusDateOrder(a, b) ==
  IF a.statusDate = b.statusDate THEN 0 ELSE IF a.statusDate > b.statusDate THEN -1 ELSE 1

\* Array.sort(order): Array.prototype.sort on a copy, which is stable.  Computed as
\* an insertion sort: each element goes behind every element not ordered after it.
RECURSIVE insertSorted(_, _)
\* Mutant of insertSorted: an unstable sort, the element goes before its equals.
RECURSIVE insertBeforeEquals(_, _)
insertBeforeEquals(s, x) ==
  IF s = <<>> THEN <<x>>
  ELSE IF statusDateOrder(Head(s), x) < 0
       THEN <<Head(s)>> \o insertBeforeEquals(Tail(s), x)
       ELSE <<x>> \o s

insertSorted(s, x) ==
  IF s = <<>> THEN <<x>>
  ELSE IF statusDateOrder(Head(s), x) <= 0
       THEN <<Head(s)>> \o insertSorted(Tail(s), x)
       ELSE <<x>> \o s

RECURSIVE sortInto(_, _)
sortInto(out, rest) ==
  IF rest = <<>> THEN out ELSE sortInto(insertSorted(out, Head(rest)), Tail(rest))

sort(s) == sortInto(<<>>, s)

\* The pure part of reviewedPreprintsTopUpCombine.
combined(oldList, newList) == sort(dedupeWith(appendAll(oldList, newList)))

----
\* Detail records.

\* fs.remove(path, {force}): fails on a missing target unless force is set.
removeSucceeds(present, force) == present \/ force

\* Mutant of invalidateForce: fs.remove(path) without the force option.
invalidateWithoutForce == FALSE

\* the force option reviewedPreprintsTopUpInvalidate passes to fs.remove
invalidateForce == TRUE

\* The ids of the delta, as reviewedPreprintsTopUpInvalidate maps them to paths.
idsOf(rs) == [i \in 1..Len(rs) |-> rs[i].id]

\* Mutant of removeDetails: every detail file is removed.
removeAllDetails(det, ids, k) == [id \in DOMAIN det |-> NoDetail]

\* The detail files after the first k removals of the Invalidator.
removeDetails(det, ids, k) ==
  [id \in DOMAIN det |-> IF \E i \in 1..k : ids[i] = id THEN NoDetail ELSE det[id]]

\* Mutant of existsResults: every existence test answers false.
existsAlwaysFalse(det, failing) ==
  [id \in DOMAIN det |-> [det[id] EXCEPT !.present = FALSE]]

\* fs.exists(path).pipe(Effect.catchAll(() => Effect.succeed(false))): what the scan
\* sees of the detail files when the existence tests of the ids in `failing` fail.
existsResults(det, failing) ==
  [id \in DOMAIN det |->
     [det[id] EXCEPT !.present = det[id].present /\ id \notin failing]]

\* Mutant of isMissing: the filter without the negation.
isMissingInverted(exists) == exists

\* results.filter(({ exists }) => !exists): the ids to fetch
isMissing(exists) == ~exists

\* missingIndividualReviewedPreprints: the ids of the cached list without a detail file.
RECURSIVE missingOf(_, _)
missingOf(ids, det) ==
  IF ids = <<>> THEN <<>>
  ELSE (IF isMissing(det[Head(ids)].present) THEN <<Head(ids)>> ELSE <<>>)
       \o missingOf(Tail(ids), det)

remoteHas(rem, id) == \E i \in 1..Len(rem) : rem[i].id = id

remoteItem(rem, id) == rem[CHOOSE i \in 1..Len(rem) : rem[i].id = id]

\* GET /reviewed-preprints/<id>, decoded with reviewedPreprintItemCodec and written
\* with stringifyJson: the detail file of id.
detailFile(rem, id) ==
  [present |-> TRUE,
   statusDate |-> toISOString(DateFromString(remoteItem(rem, id).statusDate))]

\* The detail files after the first k writes of retrieveIndividualReviewedPreprints.
writeDetails(det, rem, missing, k) ==
  [id \in DOMAIN det |->
     IF \E i \in 1..k : missing[i] = id THEN detailFile(rem, id) ELSE det[id]]

----
\* The pipeline reviewedPreprintsTopUp, one action per stage.  A stage that fails
\* ends the run: Effect.flatMap runs no later stage.

Fail(cause) ==
  /\ pc' = "failed"
  /\ error' = cause

\* The failures of the stages that run between the write of the delta file and its
\* removal: the Invalidator, the Merger and the removal itself.
AfterDeltaWrite == {"detailMissing", "detailRemove", "listWrite", "deltaRemove"}

\* The command line starts a run: Options.integer('limit') between 1 and 100.
StartRun ==
  /\ pc \in {"idle", "done", "failed"}
  /\ runs < MaxRuns
  /\ \E l \in 1..MaxLimit : limit' = l
  /\ pc' = "mkdir"
  /\ error' = "none"
  /\ invalidated' = {}
  /\ deleted' = {}
  /\ unreadable' = {}
  /\ leftover' = IF pc = "failed" /\ error \in AfterDeltaWrite
                  THEN Range(idsOf(newFile.items))
                  ELSE {}
  /\ runs' = runs + 1
  /\ UNCHANGED <<offset, remote, call, listFile, newFile, details, dirExists, fresh>>

\* fs.makeDirectory(getCachedFilePath, { recursive: true })
createCacheFolder ==
  /\ pc = "mkdir"
  /\ \/ /\ dirExists' = TRUE
        /\ pc' = "write"
        /\ UNCHANGED error
     \/ /\ Fail("mkdir")
        /\ UNCHANGED dirExists
  /\ UNCHANGED <<limit, offset, remote, call, listFile, newFile, details,
                 invalidated, runs, fresh,
                 leftover, deleted, unreadable>>

\* Mutant of deltaAfterFetch: the pages fetched so far are written as they arrive.
deltaWrittenPageByPage(old, rem, lim, off, fetched) ==
  IF fetched = 0 THEN old
  ELSE stringifyJson(
         slice(flat([i \in 1..fetched |->
                       getReviewedPreprintsTopUpPage(rem, lim, plannedPages(lim, off)[i])]),
               sliceStart(lim, off), sliceEnd(lim, off)))

\* Mutant of deltaAfterFetch: a delta file that is already there is kept as it is.
deltaKeptWhenPresent(old, rem, lim, off, fetched) ==
  IF old.kind = "list" \/ fetched # Len(plannedPages(lim, off))
  THEN old
  ELSE stringifyJson(getReviewedPreprintsTopUp(rem, lim, off))

\* The delta file after the Top-Up Engine fetched the first `fetched` of its planned
\* pages: Effect.all fails at the first page that fails, and the stringify and the
\* write come after it, so only a complete fetch reaches the write.
deltaAfterFetch(old, rem, lim, off, fetched) ==
  IF fetched = Len(plannedPages(lim, off))
  THEN stringifyJson(getReviewedPreprintsTopUp(rem, lim, off))
  ELSE old

\* Mutant of reviewedPreprintsTopUpWrite: the window is written to the canonical
\* path.
topUpWritesCanonical ==
  /\ pc = "write"
  /\ LET cached == getCachedReviewedPreprints(listFile)
         off == Len(cached.value)
         planned == Len(plannedPages(limit, off))
     IN  \/ /\ ~cached.ok
            /\ Fail("cacheDecode")
            /\ UNCHANGED listFile
         \/ /\ cached.ok
            /\ listFile' = deltaAfterFetch(listFile, remote, limit, off, planned)
            /\ pc' = "invalidate"
            /\ UNCHANGED error
  /\ UNCHANGED <<limit, offset, remote, call, newFile, details, dirExists,
                 invalidated, runs, fresh, leftover, deleted, unreadable>>

\* The Top-Up Engine.
reviewedPreprintsTopUpWrite ==
  /\ pc = "write"
  /\ LET cached == getCachedReviewedPreprints(listFile)
         off == Len(cached.value)
         planned == Len(plannedPages(limit, off))
     IN  \/ /\ ~cached.ok
            /\ Fail("cacheDecode")
            /\ UNCHANGED newFile
         \/ /\ cached.ok
            /\ \E fetched \in 0..(planned - 1) :
                 newFile' = deltaAfterFetch(newFile, remote, limit, off, fetched)
            /\ Fail("pageFetch")
         \/ /\ cached.ok
            /\ Fail("deltaWrite")
            /\ UNCHANGED newFile
         \/ /\ cached.ok
            /\ newFile' = deltaAfterFetch(newFile, remote, limit, off, planned)
            /\ pc' = "invalidate"
            /\ UNCHANGED error
  /\ UNCHANGED <<limit, offset, remote, call, listFile, details, dirExists,
                 invalidated, runs, fresh,
                 leftover, deleted, unreadable>>

\* The Invalidator.  Effect.forEach removes the paths one after the other and stops
\* at the first removal that fails: one the file system refuses for a missing
\* target ("detailMissing"), or one that fails for another reason ("detailRemove").
reviewedPreprintsTopUpInvalidate ==
  /\ pc = "invalidate"
  /\ LET delta == getCachedReviewedPreprints(newFile)
         ids == idsOf(delta.value)
         refused == {i \in 1..Len(ids) :
                       ~removeSucceeds(details[ids[i]].present, invalidateForce)}
     IN  \/ /\ ~delta.ok
            /\ Fail("cacheDecode")
            /\ UNCHANGED <<details, invalidated, deleted>>
         \/ /\ delta.ok
            /\ \E k \in 0..(Len(ids) - 1) :
                 /\ \A i \in refused : k < i
                 /\ details' = removeDetails(details, ids, k)
                 /\ Fail(IF (k + 1) \in refused THEN "detailMissing" ELSE "detailRemove")
            /\ UNCHANGED <<invalidated, deleted>>
         \/ /\ delta.ok
            /\ refused = {}
            /\ details' = removeDetails(details, ids, Len(ids))
            /\ invalidated' = Range(ids)
            /\ deleted' = {id \in Range(ids) : details[id].present}
            /\ pc' = "combine"
            /\ UNCHANGED error
  /\ UNCHANGED <<limit, offset, remote, call, listFile, newFile, dirExists, runs, fresh,
                 leftover, unreadable>>

\* The Merger, from position `from` to position `to`.
Merge(from, to) ==
  /\ pc = from
  /\ LET oldList == getCachedReviewedPreprints(listFile)
         newList == getCachedReviewedPreprints(newFile)
     IN  \/ /\ ~(oldList.ok /\ newList.ok)
            /\ Fail("cacheDecode")
            /\ UNCHANGED listFile
         \/ /\ oldList.ok /\ newList.ok
            /\ Fail("listWrite")
            /\ UNCHANGED listFile
         \/ /\ oldList.ok /\ newList.ok
            /\ listFile' = stringifyJson(combined(oldList.value, newList.value))
            /\ pc' = to
            /\ UNCHANGED error
  /\ UNCHANGED <<limit, offset, remote, call, newFile, details, dirExists,
                 invalidated, runs, fresh,
                 leftover, deleted, unreadable>>

reviewedPreprintsTopUpCombine == Merge("combine", "tidyup")

\* Mutant of reviewedPreprintsTopUpTidyUp: the run ends with the removal of the
\* delta file.
tidyUpEndsRun ==
  /\ pc = "tidyup"
  /\ \/ /\ newFile' = Absent
        /\ pc' = "done"
        /\ UNCHANGED error
     \/ /\ Fail("deltaRemove")
        /\ UNCHANGED newFile
  /\ UNCHANGED <<limit, offset, remote, call, listFile, details, dirExists,
                 invalidated, runs, fresh, leftover, deleted, unreadable>>

\* Mutant of reviewedPreprintsTopUpTidyUp: a removal that fails is reported and the
\* run goes on.
tidyUpBestEffort ==
  /\ pc = "tidyup"
  /\ \/ /\ newFile' = Absent
        /\ pc' = "backfill"
        /\ UNCHANGED error
     \/ /\ error' = "deltaRemove"
        /\ pc' = "backfill"
        /\ UNCHANGED newFile
  /\ UNCHANGED <<limit, offset, remote, call, listFile, details, dirExists,
                 invalidated, runs, fresh, leftover, deleted, unreadable>>

\* fs.remove(getCachedListFileNew, { force: true })
reviewedPreprintsTopUpTidyUp ==
  /\ pc = "tidyup"
  /\ \/ /\ newFile' = Absent
        /\ pc' = "backfill"
        /\ UNCHANGED error
     \/ /\ Fail("deltaRemove")
        /\ UNCHANGED newFile
  /\ UNCHANGED <<limit, offset, remote, call, listFile, details, dirExists,
                 invalidated, runs, fresh,
                 leftover, deleted, unreadable>>

\* Mutant of detailsAfterFetch: each record is written as soon as it is fetched.
detailsWrittenAsFetched(det, rem, missing, fetched) ==
  writeDetails(det, rem, missing, fetched)

\* retrieveIndividualReviewedPreprints: Effect.all over the fetches, then Effect.tap
\* over the writes.  The detail files once `fetched` of the missing ids were fetched
\* and decoded and every write that follows succeeded: nothing is written before
\* the last fetch has succeeded.
detailsAfterFetch(det, rem, missing, fetched) ==
  IF fetched = Len(missing)
  THEN writeDetails(det, rem, missing, Len(missing))
  ELSE det

\* Detail Backfill.  The scan tests the detail file of every id of the cached list;
\* a test that fails counts as "no file".  Every missing id is fetched (Effect.all,
\* which fails at the first fetch that fails) before the first file is written; the
\* files are then written one after the other, stopping at the first write that
\* fails.  An id the remote does not serve cannot be fetched and decoded.
retrieveMissingIndividualReviewedPreprints ==
  /\ pc = "backfill"
  /\ LET cached == getCachedReviewedPreprints(listFile)
     IN  \/ /\ ~cached.ok
            /\ Fail("cacheDecode")
            /\ UNCHANGED <<details, unreadable>>
         \/ /\ cached.ok
            /\ \E failing \in SUBSET {id \in Range(idsOf(cached.value)) :
                                        details[id].present} :
                 LET missing == missingOf(idsOf(cached.value),
                                          existsResults(details, failing))
                     fetchable(n) == \A i \in 1..n : remoteHas(remote, missing[i])
                 IN  /\ unreadable' = failing
                     /\ \/ /\ \E fetched \in 0..(Len(missing) - 1) :
                                 /\ fetchable(fetched)
                                 /\ details' = detailsAfterFetch(details, remote,
                                                                 missing, fetched)
                           /\ Fail("detailFetch")
                        \/ /\ fetchable(Len(missing))
                           /\ \E k \in 0..(Len(missing) - 1) :
                                 details' = writeDetails(details, remote, missing, k)
                           /\ Fail("detailWrite")
                        \/ /\ fetchable(Len(missing))
                           /\ details' = detailsAfterFetch(details, remote, missing,
                                                           Len(missing))
                           /\ pc' = "done"
                           /\ UNCHANGED error
  /\ UNCHANGED <<limit, offset, remote, call, listFile, newFile, dirExists,
                 invalidated, runs, fresh, leftover, deleted>>

\* The remote collections of the pipeline, as order=asc serves them: ids 1..n, the
\* first k items with the older statusDate string and the others with the newer.
Remotes ==
  UNION {{[i \in 1..n |-> IF i <= k THEN toISOString(1) ELSE toISOString(MaxDate) + 1] :
            k \in 0..n} : n \in 0..MaxId}

remoteOf(dates) == [i \in 1..Len(dates) |-> [id |-> i, statusDate |-> dates[i]]]

\* The stored records a cache of an earlier run may hold.
StoredRecords ==
  {encodeItem([id |-> i, statusDate |-> t, hash |-> md5Of([id |-> i, statusDate |-> t])]) :
     i \in Ids, t \in Dates}

\* What the list files may hold when the first run starts.
InitListFiles ==
  {Absent, BadJson, NotList}
    \cup {[kind |-> "list", items |-> <<>>]}
    \cup {[kind |-> "list", items |-> <<r>>] : r \in StoredRecords}

\* A delta file left behind by an earlier run that aborted.
LeftoverDelta ==
  stringifyJson(<<[id |-> MaxId, statusDate |-> 1,
                   hash |-> md5Of([id |-> MaxId, statusDate |-> 1])]>>)

\* A detail file left by an earlier run.
StaleDetail == [present |-> TRUE, statusDate |-> 0]

\* The detail files a cache directory may hold when the first run starts: those of
\* the ids up to k.
InitDetails ==
  {[id \in Ids |-> IF id <= k THEN StaleDetail ELSE NoDetail] : k \in 0..MaxId}

Init ==
  /\ pc = "idle"
  /\ limit = 1
  /\ offset = 0
  /\ call = NoCall
  /\ \E dates \in Remotes : remote = remoteOf(dates)
  /\ listFile \in InitListFiles
  /\ newFile \in {Absent, LeftoverDelta}
  /\ dirExists \in BOOLEAN
  /\ details \in InitDetails
  /\ dirExists = FALSE => details = [id \in Ids |-> NoDetail]
  /\ error = "none"
  /\ invalidated = {}
  /\ runs = 0
  /\ fresh = (listFile = Absent /\ ~dirExists)
  /\ leftover = {}
  /\ deleted = {}
  /\ unreadable = {}

Next ==
  \/ StartRun
  \/ createCacheFolder
  \/ reviewedPreprintsTopUpWrite
  \/ reviewedPreprintsTopUpInvalidate
  \/ reviewedPreprintsTopUpCombine
  \/ reviewedPreprintsTopUpTidyUp
  \/ retrieveMissingIndividualReviewedPreprints

Spec == Init /\ [][Next]_vars

----
\* getReviewedPreprintsTopUp on its own: a direct call with a limit and an offset
\* against a remote collection of n items, the item at position i having id i.

PlanLimits == (1..MaxSmallLimit) \cup {20, MaxPerPage, MaxPerPage + 1}

PlanRemoteLens == (0..MaxSmallRemote) \cup {45, MaxPerPage + 1, MaxPerPage + 20}

InitPlan ==
  /\ pc = "plan"
  /\ limit \in PlanLimits
  /\ offset \in 0..MaxOffset
  /\ \E n \in PlanRemoteLens :
       remote = remoteOf([i \in 1..n |-> toISOString(1 + (i % MaxDate)) + (i % 2)])
  /\ call = NoCall
  /\ listFile = Absent
  /\ newFile = Absent
  /\ dirExists = FALSE
  /\ details = [id \in Ids |-> NoDetail]
  /\ error = "none"
  /\ invalidated = {}
  /\ runs = 0
  /\ fresh = FALSE
  /\ leftover = {}
  /\ deleted = {}
  /\ unreadable = {}

CallTopUp ==
  /\ pc = "plan"
  /\ call' = [pages |-> plannedPages(limit, offset),
              sliceStart |-> sliceStart(limit, offset),
              sliceEnd |-> sliceEnd(limit, offset),
              result |-> getReviewedPreprintsTopUp(remote, limit, offset)]
  /\ pc' = "planned"
  /\ UNCHANGED <<limit, offset, remote, listFile, newFile, details, dirExists,
                 error, invalidated, runs, fresh,
                 leftover, deleted, unreadable>>

NextPlan == CallTopUp

SpecPlan == InitPlan /\ [][NextPlan]_vars

----
\* The Merger on its own: any canonical collection and any delta collection, the
\* Merger run on them, and run once more on its result and the same delta.

MergeRecords ==
  {encodeItem([id |-> i, statusDate |-> t, hash |-> md5Of([id |-> i, statusDate |-> t])]) :
     i \in Ids, t \in Dates}

MergeFiles ==
  {[kind |-> "list", items |-> items] :
     items \in UNION {[1..n -> MergeRecords] : n \in 0..MaxLen}}

InitMerge ==
  /\ pc = "combine"
  /\ listFile \in MergeFiles
  /\ newFile \in MergeFiles
  /\ limit = 1
  /\ offset = 0
  /\ remote = <<>>
  /\ call = NoCall
  /\ dirExists = TRUE
  /\ details = [id \in Ids |-> NoDetail]
  /\ error = "none"
  /\ invalidated = {}
  /\ runs = 0
  /\ fresh = FALSE
  /\ leftover = {}
  /\ deleted = {}
  /\ unreadable = {}

reviewedPreprintsTopUpCombineAgain == Merge("tidyup", "remerged")

NextMerge ==
  \/ reviewedPreprintsTopUpCombine
  \/ reviewedPreprintsTopUpCombineAgain

SpecMerge == InitMerge /\ [][NextMerge]_vars

----
\* Claims about getReviewedPreprintsTopUp, checked under SpecPlan.

\* The remote items at the 0-based positions [off, min(off + lim, R)), decoded.
WindowIs(result, rem, lim, off) ==
  LET n == Max(0, Min(off + lim, Len(rem)) - off)
  IN  /\ Len(result) = n
      /\ \A k \in 1..n :
           /\ result[k].id = rem[off + k].id
           /\ result[k].statusDate = DateFromString(rem[off + k].statusDate)

\* C1: for every limit >= 1 and offset >= 0, against a remote that serves pages of
\* min(limit, 100) items, getReviewedPreprintsTopUp returns exactly the remote items
\* at positions [offset, min(offset + limit, R)), in remote order.
C1_TopUpWindow ==
  pc = "planned" => WindowIs(call.result, remote, limit, offset)

\* C1 restricted to the limits the command line admits (1..100), where it holds.
C1_TopUpWindowWithinCap ==
  (pc = "planned" /\ limit <= MaxPerPage) => WindowIs(call.result, remote, limit, offset)

\* C2: the page plan is: first page 1 at offset 0 and floor((offset + limit) / limit)
\* otherwise; a second page, the next one, exactly when offset mod limit > 0; one or
\* two pages; the slice [offset mod limit, offset mod limit + limit).  (20, 0) plans
\* page 1 and slice [0, 20); (20, 25) pages 2, 3 and slice [5, 25); (20, 20) page 2
\* and slice [0, 20).
C2_PagePlan ==
  pc = "planned" =>
    /\ Len(call.pages) \in {1, 2}
    /\ call.pages[1] = (IF offset = 0 THEN 1 ELSE (offset + limit) \div limit)
    /\ (Len(call.pages) = 2) <=> (offset % limit > 0)
    /\ Len(call.pages) = 2 => call.pages[2] = call.pages[1] + 1
    /\ call.sliceStart = offset % limit
    /\ call.sliceEnd = (offset % limit) + limit
    /\ (limit = 20 /\ offset = 0) =>
         (call.pages = <<1>> /\ call.sliceStart = 0 /\ call.sliceEnd = 20)
    /\ (limit = 20 /\ offset = 25) =>
         (call.pages = <<2, 3>> /\ call.sliceStart = 5 /\ call.sliceEnd = 25)
    /\ (limit = 20 /\ offset = 20) =>
         (call.pages = <<2>> /\ call.sliceStart = 0 /\ call.sliceEnd = 20)

C2_WitnessTwoPages ==
  /\ pc = "planned"
  /\ limit = 20
  /\ offset = 25
  /\ call.pages = <<2, 3>>

----
\* Claims about the Merger, checked under SpecMerge.

IdsIn(items) == {items[i].id : i \in 1..Len(items)}

\* the position of the first record of id in items
FirstIdx(items, id) ==
  CHOOSE i \in 1..Len(items) :
    items[i].id = id /\ \A j \in 1..(i - 1) : items[j].id # id

\* the step in which the Merger writes the canonical file
MergerWrites == pc = "combine" /\ pc' = "tidyup"

C5_MergeIdempotent ==
  [][(pc = "tidyup" /\ pc' = "remerged") => listFile' = listFile]_vars

\* the Merger ran twice on a delta that shares an id with the canonical collection
\* and brings a new one
C5_WitnessRemerged ==
  /\ pc = "remerged"
  /\ Len(newFile.items) = 2
  /\ Len(listFile.items) = 3
  /\ listFile.items[1].statusDate = listFile.items[2].statusDate

----
\* Claims about the pipeline, checked under Spec.

decodedItems(file) == [i \in 1..Len(file.items) |-> decodeStored(file.items[i])]

SortedByStatusDateDesc(items) ==
  \A i \in 1..(Len(items) - 1) :
    DateFromString(items[i].statusDate) >= DateFromString(items[i + 1].statusDate)

\* C6: a missing or malformed canonical or delta file is read as the empty
\* collection, and no stage that reads it ever fails on it.
C6_CacheReadNeverFails ==
  error # "cacheDecode"

\* C7: when the fetch of a planned page fails the Top-Up Engine leaves the delta
\* file as it was; the delta file changes only in a stage that succeeds, and then
\* it holds the whole window [offset, offset + limit) of the remote collection.
C7_NoPartialDelta ==
  [][pc = "write" =>
       /\ error' = "pageFetch" => newFile' = newFile
       /\ newFile' # newFile =>
            /\ pc' = "invalidate"
            /\ newFile'.kind = "list"
            /\ WindowIs(decodedItems(newFile'), remote, limit,
                        Len(getCachedReviewedPreprints(listFile).value))]_vars

\* the second of two planned pages may have failed: the cache holds one record and
\* the limit is 2
C7_WitnessPageFetchFailed ==
  /\ pc = "failed"
  /\ error = "pageFetch"
  /\ limit = 2
  /\ listFile.kind = "list"
  /\ Len(listFile.items) = 1
  /\ Len(remote) = 3

\* C8: once the Invalidator has completed, no id of the delta has a detail file
\* until Detail Backfill writes it; and the Invalidator never fails because a detail
\* file it removes is already absent.
C8_InvalidatedStayAbsent ==
  /\ pc \in {"combine", "tidyup", "backfill"} =>
       \A id \in invalidated : ~details[id].present
  /\ pc \in {"combine", "tidyup"} => invalidated = IdsIn(newFile.items)
  /\ error # "detailMissing"

\* the Invalidator completed on a delta of two ids in a cache that held detail files
C8_WitnessInvalidated ==
  /\ pc = "backfill"
  /\ Cardinality(invalidated) = 2
  /\ \E id \in Ids : details[id].present

\* C9: when Detail Backfill completes, every id of the canonical collection has a
\* detail file.
C9_BackfillComplete ==
  pc = "done" =>
    /\ listFile.kind = "list"
    /\ \A i \in 1..Len(listFile.items) : details[listFile.items[i].id].present

\* Detail Backfill completed on a collection of which one id had a detail file
\* before and another got its file from the stage
C9_WitnessBackfilled ==
  /\ pc = "done"
  /\ \E i, j \in 1..Len(listFile.items) :
       /\ details[listFile.items[i].id] = StaleDetail
       /\ details[listFile.items[j].id].present
       /\ details[listFile.items[j].id] # StaleDetail

\* C10: a first run that starts with no canonical file and no cache directory and
\* completes leaves the directory, a canonical file of the first min(limit, R)
\* remote items sorted by statusDate descending, exactly one detail file per
\* canonical item, and no delta file.
C10_Bootstrap ==
  (fresh /\ runs = 1 /\ pc = "done") =>
    /\ dirExists
    /\ listFile.kind = "list"
    /\ Len(listFile.items) = Min(limit, Len(remote))
    /\ IdsIn(listFile.items) = {remote[i].id : i \in 1..Min(limit, Len(remote))}
    /\ SortedByStatusDateDesc(listFile.items)
    /\ {id \in Ids : details[id].present} = IdsIn(listFile.items)
    /\ newFile = Absent

\* a bootstrap run of limit 2 against three remote items, the second the later one
C10_WitnessBootstrap ==
  /\ fresh
  /\ runs = 1
  /\ pc = "done"
  /\ Len(remote) = 3
  /\ Len(listFile.items) = 2
  /\ listFile.items[1].id = 2

----
\* Claims about runs that follow an aborted run.

\* the window of the remote collection that starts after the items of the file
canonicalWindow(file) ==
  stringifyJson(getReviewedPreprintsTopUp(remote, limit,
                  Len(getCachedReviewedPreprints(file).value)))

\* C11 as stated: the Merger of the run that follows a run aborted between the
\* write and the removal of the delta file merges the ids of the delta that run
\* left behind into the canonical collection.
C11_LeftoverDeltaMerged ==
  [][MergerWrites => leftover \subseteq IdsIn(listFile'.items)]_vars

\* C11, amended: a run that aborts between the write and the removal of the delta
\* file leaves the delta file behind; the Top-Up Engine of the next run overwrites
\* it, so the delta a Merger merges is always the window its own run fetched, and
\* the canonical ids after the write are those before it and those of that window.
C11_LeftoverDeltaOverwritten ==
  [][/\ (pc \in {"invalidate", "combine", "tidyup"} /\ pc' = "failed") =>
          (newFile' = newFile /\ newFile.kind = "list")
     /\ MergerWrites =>
          /\ newFile = canonicalWindow(listFile)
          /\ IdsIn(listFile'.items) = IdsIn(listFile.items) \cup IdsIn(newFile.items)]_vars

\* the Merger of the next run has written a canonical collection that lacks an id
\* of the delta the aborted run left behind
C11_WitnessLeftoverNotMerged ==
  /\ pc = "tidyup"
  /\ leftover # {}
  /\ ~(leftover \subseteq IdsIn(listFile.items))

\* C12: whatever runs aborted before it, when a run completes the canonical
\* collection has no two records of the same id and is sorted by statusDate
\* descending, every canonical id has a detail file, and there is no delta file.
C12_RerunSafe ==
  pc = "done" =>
    /\ listFile.kind = "list"
    /\ \A i, j \in 1..Len(listFile.items) :
         listFile.items[i].id = listFile.items[j].id => i = j
    /\ SortedByStatusDateDesc(listFile.items)
    /\ IdsIn(listFile.items) \subseteq {id \in Ids : details[id].present}
    /\ newFile = Absent

\* a second run completed after the first aborted between the write and the removal
\* of its delta file; the collection holds items of two dates
C12_WitnessCompletedAfterAbort ==
  /\ pc = "done"
  /\ runs = 2
  /\ leftover # {}
  /\ Len(listFile.items) >= 2
  /\ listFile.items[1].statusDate # listFile.items[Len(listFile.items)].statusDate

----
\* Claims about the order and the footprint of the stages.

\* the stages of reviewedPreprintsTopUp, each with the stage that follows it
StageOrder ==
  {<<"mkdir", "write">>, <<"write", "invalidate">>, <<"invalidate", "combine">>,
   <<"combine", "tidyup">>, <<"tidyup", "backfill">>, <<"backfill", "done">>}

\* C13: a run passes the stages in the order create-directory, Top-Up write,
\* Invalidator, Merger, delta removal, Detail Backfill, and each kind of file
\* changes only in its stage; a failure ends the run in that stage, after which no
\* file changes until another run is started, so the canonical file stays what the
\* last Merger write made it.
C13_StagesInOrder ==
  [][/\ pc' # pc =>
          \/ <<pc, pc'>> \in StageOrder
          \/ (pc' = "failed" /\ \E st \in StageOrder : st[1] = pc)
          \/ (pc' = "mkdir" /\ pc \in {"idle", "done", "failed"})
     /\ (pc' = "failed") = (error' # "none")
     /\ pc \in {"idle", "done", "failed"} =>
          UNCHANGED <<listFile, newFile, details, dirExists>>
     /\ dirExists' # dirExists => pc = "mkdir"
     /\ newFile' # newFile => pc \in {"write", "tidyup"}
     /\ details' # details => pc \in {"invalidate", "backfill"}
     /\ listFile' # listFile => MergerWrites]_vars

\* a run failed in the removal of the delta file, after the Merger wrote a canonical
\* collection of two items: the delta is still there and an item has no detail file
C13_WitnessFailedAfterMerge ==
  /\ pc = "failed"
  /\ error = "deltaRemove"
  /\ newFile.kind = "list"
  /\ Len(listFile.items) = 2
  /\ \E i \in 1..Len(listFile.items) : ~details[listFile.items[i].id].present

\* C14: the canonical file changes only in the step in which the Merger writes it;
\* the Top-Up Engine changes no file but the delta file, which is another file than
\* the canonical one and holds the fetched window once the stage has succeeded.
C14_CanonicalWrittenByMergerOnly ==
  [][/\ pc \in {"mkdir", "write", "invalidate", "tidyup", "backfill"} =>
          listFile' = listFile
     /\ pc = "write" =>
          /\ UNCHANGED <<listFile, details, dirExists>>
          /\ pc' = "invalidate" => newFile' = canonicalWindow(listFile)]_vars

\* the Top-Up Engine has written a delta of two items next to a canonical file of
\* one item
C14_WitnessDeltaBesideCanonical ==
  /\ pc = "invalidate"
  /\ listFile.kind = "list"
  /\ Len(listFile.items) = 1
  /\ Len(newFile.items) = 2
  /\ IdsIn(newFile.items) \cap IdsIn(listFile.items) = {}

\* C15: no step removes an id from the canonical collection: the ids of the
\* canonical file before a step are ids of the canonical file after it.  A Merger
\* that reads the canonical file as empty writes the ids of the delta alone.
C15_CanonicalIdsOnlyGrow ==
  [][/\ IdsIn(listFile.items) \subseteq IdsIn(listFile'.items)
     /\ (MergerWrites /\ getCachedReviewedPreprints(listFile).value = <<>>) =>
          IdsIn(listFile'.items) = IdsIn(newFile.items)]_vars

\* in a second run the Merger has added one item to a canonical collection of two
C15_WitnessGrown ==
  /\ pc = "tidyup"
  /\ runs = 2
  /\ Len(listFile.items) = 3
  /\ Len(newFile.items) = 1

----
\* Claims about the detail files.

\* the ids of the canonical file without a detail file
canonicalWithoutDetail == {id \in IdsIn(listFile.items) : ~details[id].present}

\* C16: a Detail Backfill in which a fetch fails ends in failure with every detail
\* file as it was; the stage changes a detail file only when the remote served every
\* id the scan found missing.
C16_NoDetailWrittenOnFetchFailure ==
  [][pc = "backfill" =>
       /\ error' = "detailFetch" => (pc' = "failed" /\ details' = details)
       /\ details' # details =>
            \A id \in canonicalWithoutDetail \cup unreadable' : remoteHas(remote, id)]_vars

\* a fetch failed in a backfill that had two ids to fetch, the first of which the
\* remote serves
C16_WitnessFetchFailed ==
  /\ pc = "failed"
  /\ error = "detailFetch"
  /\ Cardinality(canonicalWithoutDetail) = 2
  /\ remoteHas(remote, listFile.items[1].id)
  /\ listFile.items[1].id \in canonicalWithoutDetail

\* C17 as stated: Detail Backfill leaves every detail file that exists when it
\* scans, and every detail file of an id that is not in the canonical collection,
\* as it was.
C17_ExistingDetailsUntouched ==
  [][pc = "backfill" =>
       \A id \in Ids :
         (details[id].present \/ id \notin IdsIn(listFile.items)) =>
           details'[id] = details[id]]_vars

\* C17, amended: Detail Backfill changes the detail file of an id only if the id is
\* in the canonical collection and its detail file is absent or its existence test
\* failed, and what it writes is the record the remote serves for the id.
C17_OnlyMissingWritten ==
  [][pc = "backfill" =>
       \A id \in Ids :
         details'[id] # details[id] =>
           /\ id \in IdsIn(listFile.items)
           /\ ~details[id].present \/ id \in unreadable'
           /\ details'[id] = detailFile(remote, id)]_vars

\* Detail Backfill completed after the existence test of a detail file failed, and
\* skipped the detail file of another canonical id
C17_WitnessSkippedAndRewritten ==
  /\ pc = "done"
  /\ unreadable # {}
  /\ \E i \in 1..Len(listFile.items) :
       /\ details[listFile.items[i].id] = StaleDetail
       /\ listFile.items[i].id \notin unreadable

\* C18 as stated: a detail file the Invalidator of a run deleted stays absent for
\* the rest of that run.
C18_DeletedStayAbsentInRun ==
  \A id \in deleted : ~details[id].present

\* C18, amended: a detail file the Invalidator of a run deleted is absent until the
\* Detail Backfill of that same run, and when the run completes it is there again,
\* holding the record the remote serves.
C18_DeletedRefetchedInRun ==
  /\ pc \in {"combine", "tidyup", "backfill"} =>
       \A id \in deleted : ~details[id].present
  /\ pc = "done" =>
       \A id \in deleted : details[id] = detailFile(remote, id)

\* a run completed whose Invalidator deleted the detail files of two ids
C18_WitnessRefetched ==
  /\ pc = "done"
  /\ Cardinality(deleted) = 2

----
\* Convergence against a remote collection that does not change.

remoteIds == {remote[i].id : i \in 1..Len(remote)}

\* C19: in runs that started from an empty cache, a Merger write adds exactly
\* min(limit, R - n) ids of the remote collection to a canonical collection of n
\* ids; once the canonical ids are the remote ids, the Top-Up Engine writes an empty
\* delta, the Invalidator deletes nothing and the canonical collection stays as it
\* is, and once every canonical id also has its detail file no detail file changes.
C19_Convergence ==
  [][fresh =>
       /\ MergerWrites =>
            LET n == Len(listFile.items)
            IN  /\ Len(listFile'.items) = n + Min(limit, Len(remote) - n)
                /\ Cardinality(IdsIn(listFile'.items)) = Len(listFile'.items)
                /\ IdsIn(listFile.items) \subseteq IdsIn(listFile'.items)
                /\ IdsIn(listFile'.items) \subseteq remoteIds
       /\ IdsIn(listFile.items) = remoteIds =>
            /\ (pc = "write" /\ pc' = "invalidate") => newFile'.items = <<>>
            /\ pc = "invalidate" => details' = details
            /\ listFile'.items = listFile.items
            /\ canonicalWithoutDetail = {} => details' = details]_vars

\* starting from an empty cache, a first run made the canonical collection hold the
\* two remote items and a second run completed on an empty delta
C19_WitnessConverged ==
  /\ fresh
  /\ pc = "done"
  /\ runs = 2
  /\ Len(remote) = 2
  /\ IdsIn(listFile.items) = remoteIds
  /\ invalidated = {}

----
\* The footprint of the Invalidator.

\* C20: a step of the Invalidator leaves the canonical file and the delta file as
\* they were, and changes a detail file only by deleting it and only if its id is
\* in the delta file; on a delta that reads as empty it changes no detail file.
C20_InvalidatorFrame ==
  [][pc = "invalidate" =>
       /\ listFile' = listFile
       /\ newFile' = newFile
       /\ \A id \in Ids :
            details'[id] # details[id] =>
              (id \in IdsIn(newFile.items) /\ details'[id] = NoDetail)
       /\ getCachedReviewedPreprints(newFile).value = <<>> => details' = details]_vars

\* the Invalidator deleted the detail file of the one id of the delta and left the
\* detail file of another id
C20_WitnessOthersKept ==
  /\ pc = "combine"
  /\ Len(newFile.items) = 1
  /\ deleted = IdsIn(newFile.items)
  /\ \E id \in Ids \ IdsIn(newFile.items) : details[id].present

====
